---- MODULE Spec2Model ----
(***************************************************************************)
(* maubot-autoreply: the away/back state machine of AutoReplyBot and the   *)
(* three tables of AutoReplyBotStore.                                      *)
(*                                                                         *)
(* Strings are real strings (TLC evaluates Len, SubSeq and \o on them), so *)
(* str.startswith and the f-strings of the summary are computed, not       *)
(* abstracted.  An optional value (Python's None / a value) is the empty   *)
(* sequence / a one-element sequence.  A table is the sequence of its rows *)
(* in insertion order.                                                     *)
(***************************************************************************)
EXTENDS Integers, Sequences, FiniteSets, TLC

\* ------------------------------------------------------------------ bounds
\* Number of m.room.message events delivered to the bot in one behaviour.
MaxEvents == 5
\* Number of client.create_room calls in one behaviour.
MaxRooms == 2
MaxTasks == 3

\* ------------------------------------------------------------- vocabulary
None == <<>>
Some(v) == <<v>>

\* self.client.mxid: the account the bot runs on (the owner).
mxid == "@owner:hs"
\* Who can send a message into a room the bot is in.
Senders == {mxid, "@alice:hs"}
\* Rooms the owner is in besides the management room.
DMRooms == {"!dm1:hs", "!dm2:hs"}
\* The room id client.create_room returns on its n-th call (fresh each time).
create_room(n) == "!mgmt" \o ToString(n) \o ":hs"
AllRooms == DMRooms \cup {create_room(n) : n \in 1..MaxRooms}
\* The event id of the n-th event delivered (event ids are unique).
EventId(n) == "$e" \o ToString(n)

\* The message bodies delivered: the three commands alone, with a suffix, after
\* other text, one after another, cut short, and bodies that are no command.
Bodies ==
    {"", "x", "!away", "!back", "!clear", "!away x", "x!away", "!awa",
     "!clear!away", "!back!clear"}

\* config["message"]
config_message == "I am away"

\* The m.direct account data: a dict, here the sequence of its items
\* <<key, rooms>> in iteration order.
DirectData ==
    { <<>>,
      << <<"@alice:hs", <<>> >>, <<"@bob:hs", <<"!dm2:hs", "!dm1:hs">> >> >>,
      << <<"@alice:hs", <<"!dm1:hs">> >>, <<"@bob:hs", <<create_room(1)>> >> >> }

VARIABLES
    autoreply_management_rooms,  \* table: rows [user_id, room_id]
    autoreply_messages,          \* table: rows [room_id, event_id, user_id]
    autoreply_user_away,         \* table: rows [user_id, is_away]
    management_room,             \* AutoReplyBot.management_room (None before start)
    m_direct,                    \* the owner's m.direct account data
    nEvents,                     \* events delivered so far
    nCreated,                    \* client.create_room calls so far
    nStoreRoom,                  \* store_management_room calls so far
    restarted,                   \* start has run with a room already bound
    last,                        \* the last handle_message run: event, what it saw, what it sent
    lastWrite,                   \* value of the last update_away_state call
    firstQual,                   \* per room: first qualifying message since the last !back / !clear
    sinceAway,                   \* the period opened by the last !away command
    sinceLeft,                   \* the period opened by the last !away that left BACK
    replied,                     \* the rooms an auto-reply has ever been sent into
    tasks                        \* handle_message runs in progress or ended, when runs interleave

tables == <<autoreply_management_rooms, autoreply_messages, autoreply_user_away>>
history == <<nStoreRoom, restarted, last, lastWrite, firstQual, sinceAway, sinceLeft,
             replied>>
vars == <<tables, management_room, m_direct, nEvents, nCreated, history, tasks>>

\* ------------------------------------------------------ AutoReplyBotStore
\* AutoReplyBotStore.user_id
user_id == mxid

\* Database.fetchval: the named column of the first row, or None.
fetchval(rows, column) == IF rows = <<>> THEN None ELSE Some(rows[1][column])

get_management_room(t) ==
    LET mine(row) == row.user_id = user_id
    IN  fetchval(SelectSeq(t, mine), "room_id")

\* INSERT into a table whose primary key is user_id.
store_management_room(t, room_id) ==
    IF \E i \in 1..Len(t) : t[i].user_id = user_id
    THEN [err |-> Some("IntegrityError"), table |-> t]
    ELSE [err |-> None,
          table |-> Append(t, [user_id |-> user_id, room_id |-> room_id])]

get_message_id_in_room(t, room_id) ==
    LET hit(row) == row.room_id = room_id /\ row.user_id = user_id
    IN  fetchval(SelectSeq(t, hit), "event_id")

\* Mutant of store_message: the table has no primary key.
store_message_no_key(t, event_id, room_id) ==
    [err |-> None,
     table |-> Append(t, [room_id |-> room_id, event_id |-> event_id,
                          user_id |-> user_id])]

\* INSERT into a table whose primary key is room_id.
store_message(t, event_id, room_id) ==
    IF \E i \in 1..Len(t) : t[i].room_id = room_id
    THEN [err |-> Some("IntegrityError"), table |-> t]
    ELSE [err |-> None,
          table |-> Append(t, [room_id |-> room_id, event_id |-> event_id,
                               user_id |-> user_id])]

\* Mutant of clear_messages: the DELETE matches no row.
clear_messages_none(t) == t

clear_messages(t) ==
    LET others(row) == row.user_id # user_id
    IN  SelectSeq(t, others)

get_missed_messages(t) ==
    LET mine(row) == row.user_id = user_id
        rows == SelectSeq(t, mine)
    IN  [i \in 1..Len(rows) |-> <<rows[i].room_id, rows[i].event_id>>]

\* Mutant of update_away_state: ON CONFLICT(user_id) DO NOTHING.
update_away_state_do_nothing(t, is_away_) ==
    IF \E i \in 1..Len(t) : t[i].user_id = user_id
    THEN t
    ELSE Append(t, [user_id |-> user_id, is_away |-> is_away_])

\* INSERT ... ON CONFLICT(user_id) DO UPDATE SET is_away = EXCLUDED.is_away
update_away_state(t, is_away_) ==
    IF \E i \in 1..Len(t) : t[i].user_id = user_id
    THEN [i \in 1..Len(t) |->
            IF t[i].user_id = user_id
            THEN [t[i] EXCEPT !.is_away = is_away_]
            ELSE t[i]]
    ELSE Append(t, [user_id |-> user_id, is_away |-> is_away_])

\* Mutant of is_away: no row counts as away.
is_away_default_true(t) ==
    LET mine(row) == row.user_id = user_id
        ret == fetchval(SelectSeq(t, mine), "is_away")
    IN  IF ret = None THEN TRUE ELSE ret[1]

is_away(t) ==
    LET mine(row) == row.user_id = user_id
        ret == fetchval(SelectSeq(t, mine), "is_away")
    IN  IF ret = None THEN FALSE ELSE ret[1]

\* ------------------------------------------------------------ AutoReplyBot
\* Mutant of startswith: the prefix is looked for anywhere in the string.
startswith_anywhere(s, prefix) ==
    \E i \in 1..(Len(s) + 1) :
        /\ i + Len(prefix) - 1 <= Len(s)
        /\ SubSeq(s, i, i + Len(prefix) - 1) = prefix

\* str.startswith
startswith(s, prefix) ==
    Len(prefix) <= Len(s) /\ SubSeq(s, 1, Len(prefix)) = prefix

\* evt.reply(content, markdown): a message sent into the event's room.
Reply(evt, content, markdown) ==
    [room_id |-> evt.room_id, in_reply_to |-> evt.event_id,
     content |-> content, markdown |-> markdown]

\* The inner loop of _is_direct: for room in rooms.
RECURSIVE scan_rooms(_, _, _)
scan_rooms(rooms, i, room_id) ==
    IF i > Len(rooms) THEN FALSE
    ELSE IF rooms[i] = room_id THEN TRUE
    ELSE scan_rooms(rooms, i + 1, room_id)

\* The outer loop of _is_direct: for _, rooms in data.items().
RECURSIVE scan_items(_, _, _)
scan_items(data, k, room_id) ==
    IF k > Len(data) THEN FALSE
    ELSE IF scan_rooms(data[k][2], 1, room_id) THEN TRUE
    ELSE scan_items(data, k + 1, room_id)

\* Mutant of _is_direct: only the first room list is looked through.
_is_direct_first_list(data, room_id) ==
    Len(data) >= 1 /\ scan_rooms(data[1][2], 1, room_id)

_is_direct(data, room_id) == scan_items(data, 1, room_id)

\* Mutant of _generate_room_entry: the entry links the room only.
_generate_room_entry_room_only(room_id, event_id) ==
    "[" \o room_id \o "](https://matrix.to/#/" \o room_id \o ")"

_generate_room_entry(room_id, event_id) ==
    "[" \o room_id \o "](https://matrix.to/#/" \o room_id \o ")"
        \o " ([view message](https://matrix.to/#/" \o room_id \o "/" \o event_id \o "))"

\* The loop of _generate_missed_messages_summary from its i-th message on.
RECURSIVE summary_entries(_, _)
summary_entries(messages, i) ==
    IF i > Len(messages) THEN ""
    ELSE "\n* " \o _generate_room_entry(messages[i][1], messages[i][2])
             \o summary_entries(messages, i + 1)

_generate_missed_messages_summary(t) ==
    LET messages == get_missed_messages(t)
    IN  IF Len(messages) = 0
        THEN "You haven't missed any message while you were away."
        ELSE "While you were away, you have missed messages in the following DM(s):\n"
                 \o summary_entries(messages, 1)

\* Mutant of _auto_reply: the reply is sent and no marker is stored.
_auto_reply_no_store(evt, away, messages, data) ==
    IF /\ evt.sender # mxid
       /\ is_away(away)
       /\ get_message_id_in_room(messages, evt.room_id) = None
       /\ _is_direct(data, evt.room_id)
    THEN [messages |-> messages,
          replies |-> <<Reply(evt, config_message, FALSE)>>,
          err |-> None]
    ELSE [messages |-> messages, replies |-> <<>>, err |-> None]

\* Mutant of _auto_reply: the room's marker is not looked up.
_auto_reply_no_marker_check(evt, away, messages, data) ==
    IF /\ evt.sender # mxid
       /\ is_away(away)
       /\ _is_direct(data, evt.room_id)
    THEN LET stored == store_message(messages, evt.event_id, evt.room_id)
         IN  [messages |-> stored.table,
              replies |-> <<Reply(evt, config_message, FALSE)>>,
              err |-> stored.err]
    ELSE [messages |-> messages, replies |-> <<>>, err |-> None]

\* Mutant of _auto_reply: the sender is not compared with the bot's identity.
_auto_reply_no_sender_check(evt, away, messages, data) ==
    IF /\ is_away(away)
       /\ get_message_id_in_room(messages, evt.room_id) = None
       /\ _is_direct(data, evt.room_id)
    THEN LET stored == store_message(messages, evt.event_id, evt.room_id)
         IN  [messages |-> stored.table,
              replies |-> <<Reply(evt, config_message, FALSE)>>,
              err |-> stored.err]
    ELSE [messages |-> messages, replies |-> <<>>, err |-> None]

\* What _auto_reply does to the messages table, what it sends, how it ends.
_auto_reply(evt, away, messages, data) ==
    IF /\ evt.sender # mxid
       /\ is_away(away)
       /\ get_message_id_in_room(messages, evt.room_id) = None
       /\ _is_direct(data, evt.room_id)
    THEN LET stored == store_message(messages, evt.event_id, evt.room_id)
         IN  [messages |-> stored.table,
              replies |-> <<Reply(evt, config_message, FALSE)>>,
              err |-> stored.err]
    ELSE [messages |-> messages, replies |-> <<>>, err |-> None]

\* Mutant of _handle_management_command: !clear also marks the owner as back.
_handle_management_command_clear_resets(evt, away, messages) ==
    LET s0 == [away |-> away, messages |-> messages, replies |-> <<>>, cmds |-> <<>>]
        s1 == IF startswith(evt.body, "!clear")
              THEN [away |-> update_away_state(s0.away, FALSE),
                    messages |-> clear_messages(s0.messages),
                    replies |-> Append(s0.replies, Reply(evt, "Cleared messages", FALSE)),
                    cmds |-> Append(s0.cmds, "clear")]
              ELSE s0
        s2 == IF startswith(evt.body, "!away")
              THEN [away |-> update_away_state(s1.away, TRUE),
                    messages |-> s1.messages,
                    replies |-> Append(s1.replies,
                        Reply(evt, "Your status has been updated. Have a nice break!", FALSE)),
                    cmds |-> Append(s1.cmds, "away")]
              ELSE s1
        s3 == IF startswith(evt.body, "!back")
              THEN LET reply_content ==
                           "Your status has been updated. Welcome back!\n\n"
                               \o _generate_missed_messages_summary(s2.messages)
                   IN  [away |-> update_away_state(s2.away, FALSE),
                        messages |-> clear_messages(s2.messages),
                        replies |-> Append(s2.replies, Reply(evt, reply_content, TRUE)),
                        cmds |-> Append(s2.cmds, "back")]
              ELSE s2
    IN  s3

\* The three independent ifs of _handle_management_command, in order; cmds
\* lists the branches taken.
_handle_management_command(evt, away, messages) ==
    LET s0 == [away |-> away, messages |-> messages, replies |-> <<>>, cmds |-> <<>>]
        s1 == IF startswith(evt.body, "!clear")
              THEN [away |-> s0.away,
                    messages |-> clear_messages(s0.messages),
                    replies |-> Append(s0.replies, Reply(evt, "Cleared messages", FALSE)),
                    cmds |-> Append(s0.cmds, "clear")]
              ELSE s0
        s2 == IF startswith(evt.body, "!away")
              THEN [away |-> update_away_state(s1.away, TRUE),
                    messages |-> s1.messages,
                    replies |-> Append(s1.replies,
                        Reply(evt, "Your status has been updated. Have a nice break!", FALSE)),
                    cmds |-> Append(s1.cmds, "away")]
              ELSE s1
        s3 == IF startswith(evt.body, "!back")
              THEN LET reply_content ==
                           "Your status has been updated. Welcome back!\n\n"
                               \o _generate_missed_messages_summary(s2.messages)
                   IN  [away |-> update_away_state(s2.away, FALSE),
                        messages |-> clear_messages(s2.messages),
                        replies |-> Append(s2.replies, Reply(evt, reply_content, TRUE)),
                        cmds |-> Append(s2.cmds, "back")]
              ELSE s2
    IN  s3

\* ------------------------------------------------- what an observer records
\* The owner is away: an away-state row of the owner says so.
OwnerAway(t) == \E i \in 1..Len(t) : t[i].user_id = mxid /\ t[i].is_away

\* The room appears in some room list of the m.direct mapping.
InSomeList(data, room_id) ==
    \E k \in 1..Len(data) : \E i \in 1..Len(data[k][2]) : data[k][2][i] = room_id

\* The rows of the owner's markers for a room.
MarkerRows(t, room_id) ==
    {i \in 1..Len(t) : t[i].room_id = room_id /\ t[i].user_id = mxid}

\* The body begins with the prefix.
HasPrefix(body, prefix) ==
    \E n \in 0..Len(body) : SubSeq(body, 1, n) = prefix

Commands == {"!clear", "!away", "!back"}

IsAuto(reply) == reply.content = config_message
AutoCount(replies) == Cardinality({i \in 1..Len(replies) : IsAuto(replies[i])})

Has(seq, x) == \E i \in 1..Len(seq) : seq[i] = x

Period0 ==
    [open |-> FALSE, replies |-> [r \in AllRooms |-> 0], msgs |-> [r \in AllRooms |-> FALSE]]

\* A period after a management command: !back and !clear close it, an !away
\* that `opens` starts a fresh one.
PeriodAfterCmds(p, cmds, opens) ==
    IF Has(cmds, "back") THEN Period0
    ELSE IF Has(cmds, "away") /\ opens THEN [Period0 EXCEPT !.open = TRUE]
    ELSE IF Has(cmds, "clear") THEN Period0
    ELSE p

\* A period after _auto_reply handled evt: the auto-replies sent into the room
\* and whether a message of another sender arrived while the room was direct.
PeriodAfterMessage(p, evt, replies, direct) ==
    IF ~p.open THEN p
    ELSE [p EXCEPT !.replies[evt.room_id] = @ + AutoCount(replies),
                   !.msgs[evt.room_id] = @ \/ (evt.sender # mxid /\ direct)]

\* ----------------------------------------------------------------- actions
Init ==
    /\ autoreply_management_rooms = <<>>
    /\ autoreply_messages = <<>>
    /\ autoreply_user_away = <<>>
    /\ management_room = None
    /\ m_direct \in DirectData
    /\ nEvents = 0
    /\ nCreated = 0
    /\ nStoreRoom = 0
    /\ restarted = FALSE
    /\ last = None
    /\ lastWrite = None
    /\ firstQual = [r \in AllRooms |-> None]
    /\ sinceAway = Period0
    /\ sinceLeft = Period0
    /\ replied = {}
    /\ tasks = <<>>

\* Mutant of start: a room is created and stored at every start.
start_always_creates ==
    /\ nCreated < MaxRooms
    /\ LET room_id == create_room(nCreated + 1)
           stored == store_management_room(autoreply_management_rooms, room_id)
       IN  /\ nCreated' = nCreated + 1
           /\ nStoreRoom' = nStoreRoom + 1
           /\ autoreply_management_rooms' = stored.table
           /\ management_room' = IF stored.err = None THEN Some(room_id) ELSE None
           /\ UNCHANGED restarted
    /\ UNCHANGED <<autoreply_messages, autoreply_user_away, m_direct, nEvents,
                   last, lastWrite, firstQual, sinceAway, sinceLeft, replied, tasks>>

\* AutoReplyBot.start (a start of a new instance on the same database), with
\* _create_management_room when no room is bound.
start ==
    LET bound == get_management_room(autoreply_management_rooms)
    IN  /\ IF bound = None
           THEN /\ nCreated < MaxRooms
                /\ LET room_id == create_room(nCreated + 1)
                       stored == store_management_room(autoreply_management_rooms, room_id)
                   IN  /\ nCreated' = nCreated + 1
                       /\ nStoreRoom' = nStoreRoom + 1
                       /\ autoreply_management_rooms' = stored.table
                       /\ management_room' =
                              IF stored.err = None THEN Some(room_id) ELSE None
                       /\ UNCHANGED restarted
           ELSE /\ management_room' = Some(bound[1])
                /\ restarted' = TRUE
                /\ UNCHANGED <<nCreated, nStoreRoom, autoreply_management_rooms>>
        /\ UNCHANGED <<autoreply_messages, autoreply_user_away, m_direct, nEvents,
                       last, lastWrite, firstQual, sinceAway, sinceLeft, replied, tasks>>

\* Mutant of to_management: an event is a command when its body looks like one.
to_management_by_body(evt, room_id) == startswith(evt.body, "!")

\* The test of handle_message: the event was sent to the management room.
to_management(evt, room_id) == evt.room_id = room_id

\* AutoReplyBot.handle_message, run to completion on one event.
handle_message(evt) ==
    /\ management_room # None
    /\ LET command == to_management(evt, management_room[1])
           pre == [away |-> OwnerAway(autoreply_user_away),
                   marker |-> get_message_id_in_room(autoreply_messages, evt.room_id),
                   direct |-> InSomeList(m_direct, evt.room_id),
                   markers |-> Len(autoreply_messages),
                   replied |-> evt.room_id \in replied]
       IN  IF command
           THEN LET done == _handle_management_command(evt, autoreply_user_away,
                                                       autoreply_messages)
                IN  /\ autoreply_user_away' = done.away
                    /\ autoreply_messages' = done.messages
                    /\ last' = Some([evt |-> evt, command |-> TRUE, pre |-> pre,
                                     replies |-> done.replies, cmds |-> done.cmds,
                                     err |-> None, failed |-> None])
                    /\ lastWrite' =
                           IF Has(done.cmds, "back") THEN Some(FALSE)
                           ELSE IF Has(done.cmds, "away") THEN Some(TRUE)
                           ELSE lastWrite
                    /\ firstQual' =
                           IF Has(done.cmds, "back") \/ Has(done.cmds, "clear")
                           THEN [r \in AllRooms |-> None]
                           ELSE firstQual
                    /\ sinceAway' = PeriodAfterCmds(sinceAway, done.cmds, TRUE)
                    /\ sinceLeft' = PeriodAfterCmds(sinceLeft, done.cmds, ~pre.away)
                    /\ UNCHANGED replied
           ELSE LET done == _auto_reply(evt, autoreply_user_away, autoreply_messages,
                                        m_direct)
                IN  /\ autoreply_messages' = done.messages
                    /\ last' = Some([evt |-> evt, command |-> FALSE, pre |-> pre,
                                     replies |-> done.replies, cmds |-> <<>>,
                                     err |-> done.err, failed |-> None])
                    /\ firstQual' =
                           IF /\ evt.sender # mxid /\ pre.away /\ pre.direct
                              /\ firstQual[evt.room_id] = None
                           THEN [firstQual EXCEPT ![evt.room_id] = Some(evt.event_id)]
                           ELSE firstQual
                    /\ sinceAway' = PeriodAfterMessage(sinceAway, evt, done.replies,
                                                       pre.direct)
                    /\ sinceLeft' = PeriodAfterMessage(sinceLeft, evt, done.replies,
                                                       pre.direct)
                    /\ replied' = IF AutoCount(done.replies) > 0
                                   THEN replied \cup {evt.room_id}
                                   ELSE replied
                    /\ UNCHANGED <<autoreply_user_away, lastWrite>>
    /\ nEvents' = nEvents + 1
    /\ UNCHANGED <<autoreply_management_rooms, management_room, m_direct, nCreated,
                   nStoreRoom, restarted, tasks>>

\* The host delivers the next m.room.message event of some room the bot is in.
Deliver ==
    /\ nEvents < MaxEvents
    /\ management_room # None
    /\ \E room_id \in DMRooms \cup {management_room[1]}, sender \in Senders,
          body \in Bodies :
          handle_message([room_id |-> room_id, event_id |-> EventId(nEvents + 1),
                          sender |-> sender, body |-> body])

\* One of the owner's clients rewrites the m.direct account data.
SetAccountData ==
    /\ \E data \in DirectData \ {m_direct} : m_direct' = data
    /\ UNCHANGED <<tables, management_room, nEvents, nCreated, history, tasks>>

Next == start \/ Deliver \/ SetAccountData

Spec == Init /\ [][Next]_vars

\* ------------------------------------------------- calls that fail
\* The awaited calls of _auto_reply that talk to the homeserver or write to the
\* database, any of which may raise: client.get_account_data, evt.reply, and
\* database.execute in store_message.
Faults == {"get_account_data", "reply", "store_message"}

\* Mutant of _auto_reply_failing: the marker is stored before the reply is sent.
_auto_reply_failing_store_first(evt, away, messages, data, fault) ==
    IF /\ evt.sender # mxid
       /\ is_away(away)
       /\ get_message_id_in_room(messages, evt.room_id) = None
    THEN IF fault = "get_account_data"
         THEN [messages |-> messages, replies |-> <<>>,
               err |-> Some("get_account_data raised"), failed |-> Some(fault)]
         ELSE IF ~_is_direct(data, evt.room_id)
         THEN [messages |-> messages, replies |-> <<>>, err |-> None, failed |-> None]
         ELSE IF fault = "store_message"
         THEN [messages |-> messages, replies |-> <<>>,
               err |-> Some("store_message raised"), failed |-> Some(fault)]
         ELSE LET stored == store_message(messages, evt.event_id, evt.room_id)
              IN  IF stored.err # None
                  THEN [messages |-> stored.table, replies |-> <<>>,
                        err |-> stored.err, failed |-> None]
                  ELSE IF fault = "reply"
                  THEN [messages |-> stored.table, replies |-> <<>>,
                        err |-> Some("reply raised"), failed |-> Some(fault)]
                  ELSE [messages |-> stored.table,
                        replies |-> <<Reply(evt, config_message, FALSE)>>,
                        err |-> None, failed |-> None]
    ELSE [messages |-> messages, replies |-> <<>>, err |-> None, failed |-> None]

\* _auto_reply when the call `fault` raises if it is reached: nothing catches
\* the exception, so what follows the call does not run and the exception
\* leaves _auto_reply (err); failed names the call that raised.
_auto_reply_failing(evt, away, messages, data, fault) ==
    IF /\ evt.sender # mxid
       /\ is_away(away)
       /\ get_message_id_in_room(messages, evt.room_id) = None
    THEN IF fault = "get_account_data"
         THEN [messages |-> messages, replies |-> <<>>,
               err |-> Some("get_account_data raised"), failed |-> Some(fault)]
         ELSE IF ~_is_direct(data, evt.room_id)
         THEN [messages |-> messages, replies |-> <<>>, err |-> None, failed |-> None]
         ELSE IF fault = "reply"
         THEN [messages |-> messages, replies |-> <<>>,
               err |-> Some("reply raised"), failed |-> Some(fault)]
         ELSE IF fault = "store_message"
         THEN [messages |-> messages,
               replies |-> <<Reply(evt, config_message, FALSE)>>,
               err |-> Some("store_message raised"), failed |-> Some(fault)]
         ELSE LET stored == store_message(messages, evt.event_id, evt.room_id)
              IN  [messages |-> stored.table,
                   replies |-> <<Reply(evt, config_message, FALSE)>>,
                   err |-> stored.err, failed |-> None]
    ELSE [messages |-> messages, replies |-> <<>>, err |-> None, failed |-> None]

\* AutoReplyBot.handle_message on an event of a room other than the management
\* room, run to completion, when the call `fault` raises: handle_message
\* catches nothing either, so err is what the handler raises to the host.
handle_message_failing(evt, fault) ==
    /\ management_room # None
    /\ ~to_management(evt, management_room[1])
    /\ LET pre == [away |-> OwnerAway(autoreply_user_away),
                   marker |-> get_message_id_in_room(autoreply_messages, evt.room_id),
                   direct |-> InSomeList(m_direct, evt.room_id),
                   markers |-> Len(autoreply_messages),
                   replied |-> evt.room_id \in replied]
           done == _auto_reply_failing(evt, autoreply_user_away, autoreply_messages,
                                       m_direct, fault)
       IN  /\ done.failed # None
           /\ autoreply_messages' = done.messages
           /\ last' = Some([evt |-> evt, command |-> FALSE, pre |-> pre,
                            replies |-> done.replies, cmds |-> <<>>,
                            err |-> done.err, failed |-> done.failed])
           /\ firstQual' =
                  IF /\ evt.sender # mxid /\ pre.away /\ pre.direct
                     /\ firstQual[evt.room_id] = None
                  THEN [firstQual EXCEPT ![evt.room_id] = Some(evt.event_id)]
                  ELSE firstQual
           /\ sinceAway' = PeriodAfterMessage(sinceAway, evt, done.replies, pre.direct)
           /\ sinceLeft' = PeriodAfterMessage(sinceLeft, evt, done.replies, pre.direct)
           /\ replied' = IF AutoCount(done.replies) > 0
                         THEN replied \cup {evt.room_id}
                         ELSE replied
    /\ nEvents' = nEvents + 1
    /\ UNCHANGED <<autoreply_management_rooms, autoreply_user_away, management_room,
                   m_direct, nCreated, nStoreRoom, restarted, lastWrite, tasks>>

\* The host delivers an event during whose handling one of the calls raises
\* (_auto_reply never reads the body).
DeliverFailing ==
    /\ nEvents < MaxEvents
    /\ management_room # None
    /\ \E room_id \in DMRooms, sender \in Senders, fault \in Faults :
          handle_message_failing([room_id |-> room_id, event_id |-> EventId(nEvents + 1),
                                  sender |-> sender, body |-> "x"], fault)

NextFailing == start \/ Deliver \/ SetAccountData \/ DeliverFailing

SpecFailing == Init /\ [][NextFailing]_vars

\* ------------------------------------------- handlers interleaved at awaits
\* handle_message is a coroutine: the host may start the handler of the next
\* event while an earlier one is suspended at an await.  A task is one running
\* handle_message call; pc names the await it is suspended at.
AsyncCommands == {"!away", "!back", "!clear"}

\* _handle_management_command is three ifs in sequence: the first await at or
\* after the given if, "done" when none of the remaining prefixes matches.
command_pc(body, from) ==
    IF from <= 1 /\ startswith(body, "!clear") THEN "clear"
    ELSE IF from <= 2 /\ startswith(body, "!away") THEN "away"
    ELSE IF from <= 3 /\ startswith(body, "!back") THEN "back"
    ELSE "done"

\* handle_message up to its first await: the room test, and in _auto_reply the
\* sender test, run without suspending.
NewTask(evt) ==
    [evt |-> evt,
     pc |-> IF to_management(evt, management_room[1]) THEN command_pc(evt.body, 1)
            ELSE IF evt.sender # mxid THEN "is_away"
            ELSE "done",
     found |-> None,          \* what get_message_id_in_room returned to this task
     replies |-> <<>>,        \* what this task sent
     err |-> None,            \* what this task raised
     read |-> <<>>,           \* what get_missed_messages returned to this task
     reply_content |-> "",    \* the local reply_content of the !back branch
     deleted |-> <<>>]        \* the rows this task's clear_messages deleted

\* Mutant of marker_check: the task goes on whatever it read.
marker_check_ignored(f, messages) ==
    [f EXCEPT !.found = get_message_id_in_room(messages, f.evt.room_id),
              !.pc = "_is_direct"]

\* and await self.store.get_message_id_in_room(evt.room_id) is None
marker_check(f, messages) ==
    LET found == get_message_id_in_room(messages, f.evt.room_id)
    IN  [f EXCEPT !.found = found,
                  !.pc = IF found = None THEN "_is_direct" ELSE "done"]

\* The rows a clear_messages call deletes, as (room_id, event_id) pairs.
owner_rows(t) == get_missed_messages(t)

asyncFixed == <<autoreply_management_rooms, management_room, m_direct, nCreated, history>>

\* A started bot with its management room bound, in a state the handlers run
\* one at a time can leave behind after three events: the owner never away,
\* away with no or two markers, or back.  The per-run history is not kept here.
AsyncInit ==
    /\ autoreply_management_rooms = <<[user_id |-> user_id, room_id |-> create_room(1)]>>
    /\ management_room = Some(create_room(1))
    /\ m_direct \in DirectData
    /\ \/ /\ autoreply_user_away = <<>>
          /\ autoreply_messages = <<>>
       \/ /\ autoreply_user_away = <<[user_id |-> user_id, is_away |-> FALSE]>>
          /\ autoreply_messages = <<>>
       \/ /\ autoreply_user_away = <<[user_id |-> user_id, is_away |-> TRUE]>>
          /\ autoreply_messages \in
                 { <<>>,
                   <<[room_id |-> "!dm2:hs", event_id |-> EventId(2), user_id |-> user_id],
                     [room_id |-> "!dm1:hs", event_id |-> EventId(3), user_id |-> user_id]>> }
    /\ nEvents = 3
    /\ nCreated = 1
    /\ nStoreRoom = 1
    /\ restarted = FALSE
    /\ last = None
    /\ lastWrite = None
    /\ firstQual = [r \in AllRooms |-> None]
    /\ sinceAway = Period0
    /\ sinceLeft = Period0
    /\ replied = {}
    /\ tasks = <<>>

\* The host calls handle_message(evt); the handler runs to its first await.
Receive ==
    /\ Len(tasks) < MaxTasks
    /\ \E evt \in
           { [room_id |-> r, event_id |-> EventId(nEvents + 1), sender |-> u, body |-> "x"] :
                 r \in DMRooms, u \in Senders }
           \cup
           { [room_id |-> management_room[1], event_id |-> EventId(nEvents + 1),
              sender |-> mxid, body |-> b] : b \in AsyncCommands } :
          tasks' = Append(tasks, NewTask(evt))
    /\ nEvents' = nEvents + 1
    /\ UNCHANGED <<autoreply_messages, autoreply_user_away, asyncFixed>>

\* and await self.store.is_away()
await_is_away ==
    \E i \in 1..Len(tasks) :
        /\ tasks[i].pc = "is_away"
        /\ tasks' = [tasks EXCEPT ![i].pc = IF is_away(autoreply_user_away)
                                            THEN "get_message_id_in_room" ELSE "done"]
        /\ UNCHANGED <<autoreply_messages, autoreply_user_away, nEvents, asyncFixed>>

await_get_message_id_in_room ==
    \E i \in 1..Len(tasks) :
        /\ tasks[i].pc = "get_message_id_in_room"
        /\ tasks' = [tasks EXCEPT ![i] = marker_check(tasks[i], autoreply_messages)]
        /\ UNCHANGED <<autoreply_messages, autoreply_user_away, nEvents, asyncFixed>>

\* and await self._is_direct(evt.room_id)
await__is_direct ==
    \E i \in 1..Len(tasks) :
        /\ tasks[i].pc = "_is_direct"
        /\ tasks' = [tasks EXCEPT ![i].pc = IF _is_direct(m_direct, tasks[i].evt.room_id)
                                            THEN "reply" ELSE "done"]
        /\ UNCHANGED <<autoreply_messages, autoreply_user_away, nEvents, asyncFixed>>

\* await evt.reply(content=self.config["message"])
await_reply ==
    \E i \in 1..Len(tasks) :
        /\ tasks[i].pc = "reply"
        /\ tasks' = [tasks EXCEPT
                        ![i].replies = Append(@, Reply(tasks[i].evt, config_message, FALSE)),
                        ![i].pc = "store_message"]
        /\ UNCHANGED <<autoreply_messages, autoreply_user_away, nEvents, asyncFixed>>

\* await self.store.store_message(event_id=evt.event_id, room_id=evt.room_id)
await_store_message ==
    \E i \in 1..Len(tasks) :
        /\ tasks[i].pc = "store_message"
        /\ LET stored == store_message(autoreply_messages, tasks[i].evt.event_id,
                                       tasks[i].evt.room_id)
           IN  /\ autoreply_messages' = stored.table
               /\ tasks' = [tasks EXCEPT ![i].err = stored.err, ![i].pc = "done"]
        /\ UNCHANGED <<autoreply_user_away, nEvents, asyncFixed>>

\* await self.store.clear_messages(), in the !clear branch and at the end of the
\* !back branch.
await_clear_messages ==
    \E i \in 1..Len(tasks) :
        /\ tasks[i].pc \in {"clear", "back_clear"}
        /\ autoreply_messages' = clear_messages(autoreply_messages)
        /\ tasks' = [tasks EXCEPT
                        ![i].deleted = owner_rows(autoreply_messages),
                        ![i].pc = IF tasks[i].pc = "clear" THEN "clear_reply" ELSE "done"]
        /\ UNCHANGED <<autoreply_user_away, nEvents, asyncFixed>>

\* await self.store.update_away_state(is_away=...), in the !away and !back branches.
await_update_away_state ==
    \E i \in 1..Len(tasks) :
        /\ tasks[i].pc \in {"away", "back"}
        /\ autoreply_user_away' = update_away_state(autoreply_user_away, tasks[i].pc = "away")
        /\ tasks' = [tasks EXCEPT ![i].pc = IF tasks[i].pc = "away" THEN "away_reply"
                                            ELSE "back_summary"]
        /\ UNCHANGED <<autoreply_messages, nEvents, asyncFixed>>

\* reply_content = "...Welcome back!\n\n"
\* reply_content += await self._generate_missed_messages_summary()
await__generate_missed_messages_summary ==
    \E i \in 1..Len(tasks) :
        /\ tasks[i].pc = "back_summary"
        /\ tasks' = [tasks EXCEPT
                        ![i].read = get_missed_messages(autoreply_messages),
                        ![i].reply_content =
                            "Your status has been updated. Welcome back!\n\n"
                                \o _generate_missed_messages_summary(autoreply_messages),
                        ![i].pc = "back_reply"]
        /\ UNCHANGED <<autoreply_messages, autoreply_user_away, nEvents, asyncFixed>>

\* The await evt.reply(...) of each branch of _handle_management_command.
await_command_reply ==
    \E i \in 1..Len(tasks) :
        /\ tasks[i].pc \in {"clear_reply", "away_reply", "back_reply"}
        /\ LET f == tasks[i]
               sent == IF f.pc = "clear_reply" THEN Reply(f.evt, "Cleared messages", FALSE)
                       ELSE IF f.pc = "away_reply"
                       THEN Reply(f.evt, "Your status has been updated. Have a nice break!",
                                  FALSE)
                       ELSE Reply(f.evt, f.reply_content, TRUE)
           IN  tasks' = [tasks EXCEPT
                            ![i].replies = Append(@, sent),
                            ![i].pc = IF f.pc = "clear_reply" THEN command_pc(f.evt.body, 2)
                                      ELSE IF f.pc = "away_reply"
                                      THEN command_pc(f.evt.body, 3)
                                      ELSE "back_clear"]
        /\ UNCHANGED <<autoreply_messages, autoreply_user_away, nEvents, asyncFixed>>

NextAsync ==
    \/ Receive
    \/ await_is_away
    \/ await_get_message_id_in_room
    \/ await__is_direct
    \/ await_reply
    \/ await_store_message
    \/ await_clear_messages
    \/ await_update_away_state
    \/ await__generate_missed_messages_summary
    \/ await_command_reply

SpecAsync == AsyncInit /\ [][NextAsync]_vars

\* ------------------------------------------------------------------ claims
\* The last handle_message run.
L == last[1]
\* This step is a handle_message run (event ids are unique, so `last` changes).
Handled == last' # last
\* The run this step completes.
L1 == last'[1]

\* C1: handlers running one at a time, the qualifying messages (sender not the
\* bot, room direct, owner away) that reach _auto_reply in one room since the
\* last !back / !clear leave exactly one marker for that room, and it carries
\* the event id of the first of them; later messages do not change it.
C1_FirstMessageMarker ==
    \A r \in AllRooms :
        firstQual[r] # None =>
            /\ Cardinality(MarkerRows(autoreply_messages, r)) = 1
            /\ get_message_id_in_room(autoreply_messages, r) = firstQual[r]

\* A second qualifying message has just been handled in a room that already
\* held the marker of the first one, and the marker is still the first one's.
C1_Witness ==
    /\ last # None
    /\ ~L.command /\ L.evt.sender # mxid /\ L.pre.away /\ L.pre.direct
    /\ L.pre.marker # None
    /\ L.pre.marker # Some(L.evt.event_id)
    /\ firstQual[L.evt.room_id] = L.pre.marker
    /\ get_message_id_in_room(autoreply_messages, L.evt.room_id) = L.pre.marker

\* The statement of C2 over a period: at most one auto-reply per room, and
\* exactly one into a room that received, while direct, a message of another
\* sender through _auto_reply.
OncePerRoom(p) ==
    p.open =>
        \A r \in AllRooms :
            /\ p.replies[r] <= 1
            /\ p.msgs[r] => p.replies[r] = 1

\* C2 as stated: the period runs from any !away to the next !back / !clear.
C2_Original == OncePerRoom(sinceAway)

\* C2 (amended): the period runs from an !away that takes the owner from BACK
\* to AWAY to the next !back / !clear; in it _auto_reply sends at most one
\* auto-reply into any room, and exactly one into a room that receives, while
\* direct, a message of a sender other than the bot.
C2_OncePerAwayPeriod == OncePerRoom(sinceLeft)

\* In an open period a room has had its one auto-reply and a later message of
\* another sender has just been handled there without a second one.
C2_Witness ==
    /\ last # None
    /\ sinceLeft.open
    /\ ~L.command /\ L.evt.sender # mxid /\ L.pre.direct /\ L.pre.marker # None
    /\ L.replies = <<>>
    /\ sinceLeft.msgs[L.evt.room_id]
    /\ sinceLeft.replies[L.evt.room_id] = 1

\* C3: a message sent by the bot's own identity never makes _auto_reply send a
\* reply or store a marker, whatever the away state, the room's
\* classification and the markers.
C3_NoSelfReply ==
    [][ (Handled /\ ~L1.command /\ L1.evt.sender = mxid) =>
            /\ L1.replies = <<>>
            /\ autoreply_messages' = autoreply_messages ]_vars

\* A message of the bot itself has been handled by _auto_reply while the owner
\* was away and the room was direct and had no marker.
C3_Witness ==
    /\ last # None
    /\ ~L.command /\ L.evt.sender = mxid
    /\ L.pre.away /\ L.pre.direct /\ L.pre.marker = None
    /\ L.replies = <<>>

\* C4: a message in a room that is in none of the room lists of m.direct never
\* makes _auto_reply send a reply or store a marker; a room that is in any one
\* of the lists is direct: a message of another sender there, with the owner
\* away and no marker for the room, is replied to and its marker stored.
C4_DirectOnly ==
    [][ (Handled /\ ~L1.command) =>
            /\ ~InSomeList(m_direct, L1.evt.room_id) =>
                   /\ L1.replies = <<>>
                   /\ autoreply_messages' = autoreply_messages
            /\ ( /\ InSomeList(m_direct, L1.evt.room_id)
                 /\ L1.evt.sender # mxid
                 /\ OwnerAway(autoreply_user_away)
                 /\ MarkerRows(autoreply_messages, L1.evt.room_id) = {} ) =>
                   /\ AutoCount(L1.replies) = 1
                   /\ get_message_id_in_room(autoreply_messages', L1.evt.room_id)
                          = Some(L1.evt.event_id) ]_vars

\* While the owner is away, a message of another sender has been handled in a
\* room of no list that has no marker, and nothing was sent; another room,
\* which was direct, holds a marker.
C4_Witness ==
    /\ last # None
    /\ ~L.command /\ L.evt.sender # mxid
    /\ L.pre.away /\ ~L.pre.direct /\ L.pre.marker = None
    /\ L.replies = <<>>
    /\ MarkerRows(autoreply_messages, L.evt.room_id) = {}
    /\ \E r \in DMRooms \ {L.evt.room_id} : MarkerRows(autoreply_messages, r) # {}

\* C5: once a !back command has been handled, get_missed_messages returns the
\* empty list, get_message_id_in_room returns None for every room, and the
\* state is BACK.
C5_BackClears ==
    (last # None /\ L.command /\ HasPrefix(L.evt.body, "!back")) =>
        /\ get_missed_messages(autoreply_messages) = <<>>
        /\ \A r \in AllRooms : get_message_id_in_room(autoreply_messages, r) = None
        /\ ~is_away(autoreply_user_away)
        /\ ~OwnerAway(autoreply_user_away)
        /\ lastWrite = Some(FALSE)

\* A !back has been handled that found two markers outstanding.
C5_Witness ==
    /\ last # None
    /\ L.command /\ HasPrefix(L.evt.body, "!back")
    /\ L.pre.away /\ L.pre.markers = 2
    /\ autoreply_messages = <<>>

\* The owner's rows of the away-state table.
AwayRows ==
    LET mine(row) == row.user_id = mxid
    IN  SelectSeq(autoreply_user_away, mine)

\* C6: update_away_state is an idempotent upsert: !away after !away leaves the
\* state AWAY and raises nothing, and after any sequence of !away / !back
\* commands the owner has exactly one away-state record, holding the value of
\* the last command.
C6_IdempotentUpsert ==
    /\ Len(AwayRows) <= 1
    /\ lastWrite = None => AwayRows = <<>>
    /\ lastWrite # None =>
           /\ AwayRows = <<[user_id |-> mxid, is_away |-> lastWrite[1]]>>
           /\ is_away(autoreply_user_away) = lastWrite[1]
    /\ (last # None /\ L.command) => L.err = None

\* An !away has been handled while the owner was already away.
C6_Witness ==
    /\ last # None
    /\ L.command /\ HasPrefix(L.evt.body, "!away") /\ L.pre.away
    /\ AwayRows = <<[user_id |-> mxid, is_away |-> TRUE]>>

\* C7: !clear deletes all the owner's markers and changes neither the away
\* state nor the management-room binding; !away changes neither the markers
\* nor the binding.
C7_Frames ==
    [][ (Handled /\ L1.command) =>
            /\ HasPrefix(L1.evt.body, "!clear") =>
                   /\ \A r \in AllRooms : MarkerRows(autoreply_messages', r) = {}
                   /\ get_missed_messages(autoreply_messages') = <<>>
                   /\ autoreply_user_away' = autoreply_user_away
                   /\ autoreply_management_rooms' = autoreply_management_rooms
                   /\ management_room' = management_room
            /\ HasPrefix(L1.evt.body, "!away") =>
                   /\ autoreply_messages' = autoreply_messages
                   /\ autoreply_management_rooms' = autoreply_management_rooms
                   /\ management_room' = management_room ]_vars

\* A !clear has been handled while the owner was away with a marker
\* outstanding: the markers are gone and the owner is still away.
C7_Witness ==
    /\ last # None
    /\ L.command /\ HasPrefix(L.evt.body, "!clear")
    /\ L.pre.away /\ L.pre.markers >= 1
    /\ autoreply_messages = <<>>
    /\ AwayRows = <<[user_id |-> mxid, is_away |-> TRUE]>>

\* The commands the body begins with.
Begun(body) == {c \in Commands : HasPrefix(body, c)}

\* C8: a body received in the management room that begins with !clear, !away
\* or !back gets exactly one reply and runs exactly one transition, the one
\* it begins with; a body that begins with none gets no reply and changes
\* neither the away state nor the markers.
C8_OneCommandOneReply ==
    [][ (Handled /\ L1.command) =>
            IF Begun(L1.evt.body) # {}
            THEN /\ Len(L1.replies) = 1
                 /\ Len(L1.cmds) = 1
                 /\ Begun(L1.evt.body) = {"!" \o L1.cmds[1]}
            ELSE /\ L1.replies = <<>>
                 /\ L1.cmds = <<>>
                 /\ autoreply_user_away' = autoreply_user_away
                 /\ autoreply_messages' = autoreply_messages ]_vars

\* A body made of two commands, one after the other, has been handled in the
\* management room and got one reply.
C8_Witness ==
    /\ last # None
    /\ L.command /\ L.evt.body = "!clear!away"
    /\ Len(L.replies) = 1
    /\ L.cmds = <<"clear">>

\* The owner's rows of the management-room table.
BindingRows ==
    LET mine(row) == row.user_id = mxid
    IN  SelectSeq(autoreply_management_rooms, mine)

\* C9: over any number of starts the owner has at most one management-room
\* binding and store_management_room is called at most once: start creates
\* and stores a room only when get_management_room returns None, and
\* otherwise takes the stored room id, creating and writing nothing.
C9_OneBinding ==
    /\ Len(BindingRows) <= 1
    /\ nStoreRoom <= 1
    /\ nCreated <= 1
    /\ nCreated = nStoreRoom
    /\ management_room # None =>
           /\ BindingRows = <<[user_id |-> mxid, room_id |-> management_room[1]]>>
           /\ management_room = get_management_room(autoreply_management_rooms)
    /\ restarted => BindingRows # <<>>

\* The bot has been started again with its room bound: one room created, one
\* binding stored, the same room in use.
C9_Witness ==
    /\ restarted
    /\ nCreated = 1 /\ nStoreRoom = 1
    /\ management_room = Some(create_room(1))

\* C10: a new owner is BACK: with no away-state record is_away returns FALSE,
\* and a message handled before the first !away gets no auto-reply and stores
\* no marker.
C10_InitiallyBack ==
    /\ [](autoreply_user_away = <<>> =>
              ~is_away(autoreply_user_away) /\ autoreply_messages = <<>>)
    /\ [][ (Handled /\ autoreply_user_away = <<>> /\ ~L1.command) =>
               /\ AutoCount(L1.replies) = 0
               /\ autoreply_messages' = autoreply_messages ]_vars

\* With no away-state record yet, a message of another sender has been
\* handled in a direct room, and nothing was sent or stored.
C10_Witness ==
    /\ last # None
    /\ autoreply_user_away = <<>> /\ lastWrite = None
    /\ ~L.command /\ L.evt.sender # mxid /\ L.pre.direct
    /\ L.replies = <<>>
    /\ autoreply_messages = <<>>

\* Every row of table a is a row of table b.
RowsWithin(a, b) == \A i \in 1..Len(a) : \E j \in 1..Len(b) : b[j] = a[i]

\* C15: handle_message routes on the room only: a message received in the
\* management room never sends the auto-reply text and never stores a marker,
\* whatever the away state; a message received in another room never changes
\* the away state and never deletes a marker, whatever its body begins with.
C15_RoutesOnRoom ==
    [][ Handled =>
            /\ L1.evt.room_id = management_room[1] =>
                   /\ AutoCount(L1.replies) = 0
                   /\ RowsWithin(autoreply_messages', autoreply_messages)
            /\ L1.evt.room_id # management_room[1] =>
                   /\ autoreply_user_away' = autoreply_user_away
                   /\ RowsWithin(autoreply_messages, autoreply_messages')
                   /\ L1.cmds = <<>> ]_vars

\* While the owner is away, a message of another sender that is no command has
\* been handled in the management room, which m.direct lists and which has no
\* marker: nothing was sent.
C15_Witness ==
    /\ last # None
    /\ L.evt.room_id = management_room[1]
    /\ L.evt.sender # mxid /\ L.evt.body = "x"
    /\ L.pre.away /\ L.pre.direct /\ L.pre.marker = None
    /\ L.replies = <<>>
    /\ MarkerRows(autoreply_messages, L.evt.room_id) = {}

\* C16: !back and !clear re-arm a room: handlers running one at a time, the
\* first qualifying message in a room since the last !back / !clear is replied
\* to and its event id stored as the room's marker, also when the room had an
\* auto-reply before.
C16_ReArmed ==
    /\ [](\A r \in AllRooms : firstQual[r] = None => MarkerRows(autoreply_messages, r) = {})
    /\ [][ ( /\ Handled /\ ~L1.command
             /\ L1.evt.sender # mxid
             /\ OwnerAway(autoreply_user_away)
             /\ InSomeList(m_direct, L1.evt.room_id)
             /\ firstQual[L1.evt.room_id] = None ) =>
               /\ AutoCount(L1.replies) = 1
               /\ L1.replies[1].in_reply_to = L1.evt.event_id
               /\ MarkerRows(autoreply_messages', L1.evt.room_id) # {}
               /\ get_message_id_in_room(autoreply_messages', L1.evt.room_id)
                      = Some(L1.evt.event_id) ]_vars

\* A room that had an auto-reply in an earlier away period, ended by !back, has
\* just had a new one in the period the next !away opened, and holds the new
\* message's marker.
C16_Witness ==
    /\ last # None
    /\ ~L.command /\ L.evt.sender # mxid /\ L.pre.away /\ L.pre.direct
    /\ L.pre.replied
    /\ sinceLeft.open
    /\ AutoCount(L.replies) = 1
    /\ get_message_id_in_room(autoreply_messages, L.evt.room_id) = Some(L.evt.event_id)

\* C12 as stated: when the m.direct lookup fails during _auto_reply the room
\* counts as not direct: no auto-reply is sent, no marker is stored, and the
\* message handler raises nothing.
C12_LookupFailureContained ==
    (last # None /\ L.failed = Some("get_account_data")) =>
        /\ L.replies = <<>>
        /\ get_message_id_in_room(autoreply_messages, L.evt.room_id) = L.pre.marker
        /\ L.err = None

\* C19: a marker is stored only after the auto-reply was sent.  When evt.reply
\* raises, _auto_reply raises, no marker is stored and the away state is
\* unchanged, so the room still has no marker and the next qualifying message
\* there is replied to; when store_message raises after the reply was sent,
\* _auto_reply raises, the reply is not sent again and no marker is recorded.
C19_ReplyThenStore ==
    [][ (Handled /\ ~L1.command) =>
            /\ autoreply_messages' # autoreply_messages => AutoCount(L1.replies) = 1
            /\ L1.failed = Some("reply") =>
                   /\ L1.err # None
                   /\ L1.replies = <<>>
                   /\ autoreply_messages' = autoreply_messages
                   /\ autoreply_user_away' = autoreply_user_away
                   /\ MarkerRows(autoreply_messages', L1.evt.room_id) = {}
            /\ L1.failed = Some("store_message") =>
                   /\ L1.err # None
                   /\ AutoCount(L1.replies) = 1
                   /\ autoreply_messages' = autoreply_messages
                   /\ MarkerRows(autoreply_messages', L1.evt.room_id) = {}
            /\ ( /\ L1.failed = None
                 /\ L1.evt.sender # mxid
                 /\ OwnerAway(autoreply_user_away)
                 /\ InSomeList(m_direct, L1.evt.room_id)
                 /\ MarkerRows(autoreply_messages, L1.evt.room_id) = {} ) =>
                   AutoCount(L1.replies) = 1 ]_vars

\* Sending the auto-reply to a qualifying message has just failed: the handler
\* raised, the owner is still away and the room still has no marker.
C19_Witness ==
    /\ last # None
    /\ L.failed = Some("reply") /\ L.err # None
    /\ L.pre.away /\ L.pre.direct /\ L.pre.marker = None
    /\ OwnerAway(autoreply_user_away)
    /\ MarkerRows(autoreply_messages, L.evt.room_id) = {}

\* ------------------------------------------- claims on interleaved handlers
\* The tasks running _auto_reply, and the tasks running the !back branch.
AutoTasks == {i \in 1..Len(tasks) : ~to_management(tasks[i].evt, management_room[1])}
BackTasks == {i \in 1..Len(tasks) : /\ to_management(tasks[i].evt, management_room[1])
                                    /\ HasPrefix(tasks[i].evt.body, "!back")}

\* The bullet of the summary for a marker (room, event), from the fixed template.
Bullet(m) ==
    "[" \o m[1] \o "](https://matrix.to/#/" \o m[1] \o ") ([view message](https://matrix.to/#/"
        \o m[1] \o "/" \o m[2] \o "))"

\* The header followed by one bullet per marker, in the order of the markers.
RECURSIVE Rendered(_)
Rendered(ms) ==
    IF ms = <<>>
    THEN "While you were away, you have missed messages in the following DM(s):\n"
    ELSE Rendered(SubSeq(ms, 1, Len(ms) - 1)) \o "\n* " \o Bullet(ms[Len(ms)])

\* C11: _generate_missed_messages_summary leaves the markers as they were and
\* returns, for zero markers, the fixed "nothing missed" sentence, and for n
\* markers the header followed by exactly n bullets, the i-th linking the i-th
\* marker's room and event through the template, in the order of the store.
C11_SummaryRenders ==
    [][ \A i \in 1..Len(tasks) :
            (tasks[i].pc = "back_summary" /\ tasks'[i].pc = "back_reply") =>
                LET ms == [k \in 1..Len(autoreply_messages) |->
                               <<autoreply_messages[k].room_id,
                                 autoreply_messages[k].event_id>>]
                IN  /\ autoreply_messages' = autoreply_messages
                    /\ tasks'[i].read = ms
                    /\ tasks'[i].reply_content =
                           "Your status has been updated. Welcome back!\n\n"
                               \o ( IF ms = <<>>
                                    THEN "You haven't missed any message while you were away."
                                    ELSE Rendered(ms) ) ]_vars

\* A !back handler has rendered the summary of two markers, which are still stored.
C11_Witness ==
    \E i \in BackTasks :
        /\ tasks[i].pc = "back_reply"
        /\ Len(tasks[i].read) = 2
        /\ Len(autoreply_messages) = 2

\* C13: with handlers interleaved at their awaits, an auto-reply is sent only
\* by a handler whose own marker read returned nothing: a handler that reads
\* the marker once a write for the room has completed stops without replying,
\* and one that reads none goes on to reply and to attempt the insert whatever
\* the others do meanwhile; so two replies into one room in one away period
\* come from two handlers that both read before either write completed.
C13_RepliesOnlyPastTheCheck ==
    /\ [](\A i \in AutoTasks : tasks[i].replies # <<>> => tasks[i].found = None)
    /\ [][ \A i \in 1..Len(tasks) :
              /\ (tasks[i].pc = "get_message_id_in_room" /\ tasks'[i].pc # tasks[i].pc) =>
                     IF MarkerRows(autoreply_messages, tasks[i].evt.room_id) # {}
                     THEN tasks'[i].pc = "done" /\ tasks'[i].replies = <<>>
                     ELSE tasks'[i].pc = "_is_direct"
              /\ (tasks[i].pc = "reply" /\ tasks'[i].pc # tasks[i].pc) =>
                     AutoCount(tasks'[i].replies) = 1 /\ tasks'[i].pc = "store_message"
              /\ tasks[i].pc = "done" => tasks'[i] = tasks[i] ]_vars

\* Two messages in one room, no command handled meanwhile: both handlers sent
\* the auto-reply and both attempted the insert, the second of which failed.
C13_Witness ==
    /\ \A k \in 1..Len(tasks) : k \in AutoTasks
    /\ \E i, j \in AutoTasks :
          /\ i # j
          /\ tasks[i].evt.room_id = tasks[j].evt.room_id
          /\ tasks[i].pc = "done" /\ tasks[j].pc = "done"
          /\ AutoCount(tasks[i].replies) = 1 /\ AutoCount(tasks[j].replies) = 1
          /\ tasks[i].err = None /\ tasks[j].err = Some("IntegrityError")

\* C14: under every interleaving the table holds at most one marker per room:
\* an insert for a room that has a marker fails and leaves the table as it
\* was, and an insert for a room that has none stores the handler's event id.
C14_OneMarkerPerRoom ==
    /\ [](\A r \in AllRooms : Cardinality(MarkerRows(autoreply_messages, r)) <= 1)
    /\ [][ \A i \in 1..Len(tasks) :
              (tasks[i].pc = "store_message" /\ tasks'[i].pc = "done") =>
                  IF MarkerRows(autoreply_messages, tasks[i].evt.room_id) # {}
                  THEN /\ tasks'[i].err # None
                       /\ autoreply_messages' = autoreply_messages
                  ELSE /\ tasks'[i].err = None
                       /\ get_message_id_in_room(autoreply_messages', tasks[i].evt.room_id)
                              = Some(tasks[i].evt.event_id) ]_vars

\* A handler's insert has failed and the room's marker is the event id another
\* handler stored before.
C14_Witness ==
    \E i, j \in AutoTasks :
        /\ i # j
        /\ tasks[j].pc = "done" /\ tasks[j].err # None
        /\ get_message_id_in_room(autoreply_messages, tasks[j].evt.room_id)
               = Some(tasks[i].evt.event_id)
        /\ Cardinality(MarkerRows(autoreply_messages, tasks[j].evt.room_id)) = 1

\* C17 as stated: every marker a !back handler deleted was listed in the
\* summary the same handler sent.
C17_DeletedWereReported ==
    \A i \in BackTasks :
        \A k \in 1..Len(tasks[i].deleted) :
            \E n \in 1..Len(tasks[i].read) : tasks[i].read[n] = tasks[i].deleted[k]

\* C18 as stated: when no handler is in progress and the owner is back, no
\* marker is stored for the owner.
C18_BackMeansNoMarkers ==
    ( /\ \A i \in 1..Len(tasks) : tasks[i].pc = "done"
      /\ ~OwnerAway(autoreply_user_away) ) =>
        \A r \in AllRooms : MarkerRows(autoreply_messages, r) = {}

====
